---- MODULE Spec2Model ----
(***************************************************************************)
(* Dialogue turn coordination and game sessions of the "I Spy" robot.      *)
(*                                                                         *)
(*   SpecSTT     the speech-to-text buffer (set_words / give_me_words)     *)
(*   SpecListen  DialogueManager.listen polling that buffer while a        *)
(*               concurrent producer deposits words                        *)
(*   SpecRG      the engine-guesses session (assignment_1 robot_guesses)   *)
(*   SpecUG      the player-guesses session (assignment_3 user_guesses)    *)
(*   SpecCO      object selection (api_handler.choose_object)              *)
(*   SpecOR      Oracle calls whose request may raise                      *)
(*   SpecUS      speech and movement in progress against listening         *)
(*   SpecAR      DialogueManager.ask_with_reprompt                         *)
(*   SpecPG      the game controller (assignment_3 play_game)              *)
(*   SpecPJ      judging a guess (api_handler.process_guess)               *)
(*                                                                         *)
(* Text is a sequence of one-character strings, so that lower-casing,      *)
(* punctuation stripping, joining and substring tests are computed.        *)
(* Time is counted in whole seconds.                                       *)
(***************************************************************************)
EXTENDS Integers, Sequences, FiniteSets, TLC

VARIABLES
    \* ---- speech-to-text buffer (DummySTT) ----
    stt_words,        \* self.words
    stt_ret,          \* value returned by the latest give_me_words()
    stt_drains,       \* number of give_me_words() calls since the latest deposit
    stt_prev,         \* value returned by the give_me_words() before the latest
    \* ---- DialogueManager.listen ----
    l_pc,             \* "idle", "outer", "inner", "returned", "raised"
    l_timeout,        \* timeout (after "timeout or self.default_timeout")
    l_silence,        \* silence_after_speech
    l_poll,           \* poll_interval
    waited,
    silence_waited,
    response,
    words,
    l_ret,            \* value returned by listen
    l_polls,          \* number of drains this listen performed
    l_deposited,      \* the producer deposited words during this listen
    l_everWords,      \* some drain of this listen returned words
    l_first,          \* the words of the first non-empty drain, kept while
                      \* every later drain is empty
    l_firstAt,        \* the value of waited at the first non-empty drain
    l_laterEmpty,     \* every drain after the first non-empty one was empty
    l_stale,          \* this listen cleared words deposited before it began,
                      \* and the producer has deposited nothing since
    \* ---- engine-guesses session ----
    rg_pc,            \* "begin", "ready", "loop", "asked", "after", "done"
    previous_guesses,
    last_feedback,
    round_counter,
    rg_question,      \* clean_guess of the running round
    rg_said,          \* narration lines spoken so far
    rg_iters,         \* number of loop bodies entered
    rg_lastFeedback,  \* the feedback of the latest completed iteration
    rg_lenBefore,     \* len(previous_guesses) when that iteration began
    rg_silent,        \* every wait_for_response so far returned None
    rg_tick,          \* parity of the readiness passes made so far
    rg_spoken,        \* texts of the speech calls of the latest wait_for_response
    \* ---- player-guesses session ----
    ug_pc,            \* "start", "loop", "after", "done"
    ug_requested,     \* difficulty= keyword passed by play_game
    difficulty,
    ug_start,         \* the value difficulty had when the session began
    round_num,
    previous_hints,
    ug_said,
    ug_iters,         \* number of loop bodies entered
    ug_incorrect,     \* number of incorrect guesses judged
    \* ---- choose_object ----
    co_pc,            \* "idle", "responded", "returned"
    co_text,          \* shape of response_text: "json", "wrapped", "prose"
    co_object,        \* the descriptor response_text holds
    co_path,          \* "", "primary", "secondary", "none"
    co_ret,           \* the returned descriptor (when co_path is not "none")
    \* ---- Oracle calls made by the sessions ----
    or_pc,            \* "idle", "called", "aborted"
    or_op,            \* the Oracle function called
    or_failed,        \* the remote call raised
    or_ret,           \* what the function returned to the session
    or_steps,         \* narrated steps the session has taken
    \* ---- opening of play_game_user_guesses: speech against listening ----
    us_pc,
    us_cur,           \* the say the session is waiting for
    us_bg,            \* the say issued without waiting for it
    us_neutral,       \* a neutral-pose motor write is outstanding
    us_listens,       \* listen phases begun
    \* ---- DialogueManager.ask_with_reprompt ----
    ar_pc,            \* "idle", "top", "listen", "hint_listen", "returned"
    ar_max,           \* max_attempts
    ar_ctx,           \* game_context is given
    attempt,
    ar_heard,         \* what the latest listen returned
    ar_ret,
    ar_said,          \* lines spoken, in order
    ar_listens,       \* listens performed
    \* ---- play_game controller ----
    pg_pc,            \* "greet", "ask_play", "ask_mode", "ask_again",
                      \* "ended", "raised"
    scan_mode,
    user_name,
    playing,
    pg_answer,        \* the answer to the latest question
    pg_said,          \* lines spoken, in order
    pg_sessions,      \* the game sessions that ran, in order
    pg_matches,       \* matches begun (mode question asked)
    pg_left,          \* session.leave() was performed
    \* ---- process_guess ----
    pj_pc,            \* "idle", "setup", "match", "semantic", "respond",
                      \* "returned"
    pj_guess,         \* the guess as passed by the caller
    pj_object,        \* game_object: name and dutch_name
    pj_oracle,        \* state of the Oracle service during the call
    is_correct,
    pj_asked,         \* the semantic request was issued
    pj_ret            \* the returned pair (response text, is_correct)

sttVars == <<stt_words, stt_ret, stt_drains, stt_prev>>
listenVars == <<l_pc, l_timeout, l_silence, l_poll, waited, silence_waited,
                response, words, l_ret, l_polls, l_deposited, l_everWords,
                l_first, l_firstAt, l_laterEmpty, l_stale>>
rgVars == <<rg_pc, previous_guesses, last_feedback, round_counter, rg_question,
            rg_said, rg_iters, rg_lastFeedback, rg_lenBefore, rg_silent,
            rg_tick, rg_spoken>>
ugVars == <<ug_pc, ug_requested, difficulty, ug_start, round_num,
            previous_hints, ug_said, ug_iters, ug_incorrect>>
coVars == <<co_pc, co_text, co_object, co_path, co_ret>>
orVars == <<or_pc, or_op, or_failed, or_ret, or_steps>>
usVars == <<us_pc, us_cur, us_bg, us_neutral, us_listens>>
arVars == <<ar_pc, ar_max, ar_ctx, attempt, ar_heard, ar_ret, ar_said,
            ar_listens>>
pgVars == <<pg_pc, scan_mode, user_name, playing, pg_answer, pg_said, pg_sessions, pg_matches,
            pg_left>>
pjVars == <<pj_pc, pj_guess, pj_object, pj_oracle, is_correct, pj_asked,
            pj_ret>>
extVars == <<coVars, orVars, usVars, arVars, pgVars, pjVars>>
vars == <<sttVars, listenVars, rgVars, ugVars, extVars>>

(***************************************************************************)
(* Text                                                                    *)
(***************************************************************************)
\* Python's None; no text equals it.
None == <<"<None>">>

\* "not x" for x a string or None
Falsy(x) == x = None \/ x = <<>>

UpperCase == <<"A","B","C","D","E","F","G","H","I","J","K","L","M",
               "N","O","P","Q","R","S","T","U","V","W","X","Y","Z">>
LowerCase == <<"a","b","c","d","e","f","g","h","i","j","k","l","m",
               "n","o","p","q","r","s","t","u","v","w","x","y","z">>

LowerChar(c) ==
    IF \E i \in 1..26 : UpperCase[i] = c
    THEN LowerCase[CHOOSE i \in 1..26 : UpperCase[i] = c]
    ELSE c

\* str.lower()
Lower(s) == [i \in 1..Len(s) |-> LowerChar(s[i])]

\* string.punctuation (the grave accent, which no text of the model holds,
\* is left out: the parser does not accept it in a string)
Punctuation == {"!", "\"", "#", "$", "%", "&", "'", "(", ")", "*", "+", ",",
                "-", ".", "/", ":", ";", "<", "=", ">", "?", "@", "[", "\\",
                "]", "^", "_", "{", "|", "}", "~"}

RECURSIVE RemoveChars(_, _)
RemoveChars(s, cs) ==
    IF s = <<>> THEN <<>>
    ELSE IF Head(s) \in cs THEN RemoveChars(Tail(s), cs)
         ELSE <<Head(s)>> \o RemoveChars(Tail(s), cs)

RECURSIVE LStrip(_)
LStrip(s) == IF s # <<>> /\ Head(s) = " " THEN LStrip(Tail(s)) ELSE s

RECURSIVE RStrip(_)
RStrip(s) ==
    IF s # <<>> /\ s[Len(s)] = " " THEN RStrip(SubSeq(s, 1, Len(s) - 1)) ELSE s

\* str.strip()
Strip(s) == RStrip(LStrip(s))

\* "sub in s"
Contains(s, sub) ==
    \E i \in 0..(Len(s) - Len(sub)) : SubSeq(s, i + 1, i + Len(sub)) = sub

RECURSIVE JoinTokens(_)
\* " ".join(tokens)
JoinTokens(toks) ==
    IF toks = <<>> THEN <<>>
    ELSE IF Len(toks) = 1 THEN toks[1]
         ELSE toks[1] \o <<" ">> \o JoinTokens(Tail(toks))

(***************************************************************************)
(* Speech-to-text buffer                                                   *)
(***************************************************************************)
MaxWords == 2

T_red == <<"r","e","d">>
T_car == <<"c","a","r">>
Tokens == {T_red, T_car}

\* A recognised word: a plain token (a str) or a (token, confidence) tuple.
PlainWord(t) == [kind |-> "str", tok |-> t, conf |-> 0]
PairWord(t) == [kind |-> "tuple", tok |-> t, conf |-> 1]

SeqsUpTo(S, n) == UNION {[1..k -> S] : k \in 1..n}

\* the non-empty word lists the recogniser delivers, one shape per list
WordLists == SeqsUpTo({PlainWord(t) : t \in Tokens}, MaxWords)
             \cup SeqsUpTo({PairWord(t) : t \in Tokens}, MaxWords)

\* DummySTT.give_me_words, not clearing the buffer
GiveMeWordsKeep(buf) == [ret |-> buf, buf |-> buf]

\* DummySTT.give_me_words: the returned list and the buffer left behind
GiveMeWords(buf) ==
    IF buf = <<>> THEN [ret |-> <<>>, buf |-> buf]
    ELSE [ret |-> buf, buf |-> <<>>]

ListenIdle ==
    /\ l_pc = "idle" /\ l_timeout = 0 /\ l_silence = 0 /\ l_poll = 0
    /\ waited = 0 /\ silence_waited = 0 /\ response = None /\ words = <<>>
    /\ l_ret = None /\ l_polls = 0 /\ l_deposited = FALSE
    /\ l_everWords = FALSE /\ l_first = <<>> /\ l_firstAt = 0
    /\ l_laterEmpty = TRUE /\ l_stale = FALSE

RGIdle ==
    /\ rg_pc = "begin" /\ previous_guesses = <<>> /\ last_feedback = <<>>
    /\ round_counter = 0 /\ rg_question = <<>> /\ rg_said = {}
    /\ rg_iters = 0 /\ rg_lastFeedback = <<>> /\ rg_lenBefore = 0
    /\ rg_silent = TRUE /\ rg_tick = 0 /\ rg_spoken = <<>>

UGIdle ==
    /\ ug_pc = "start" /\ ug_requested = 1 /\ difficulty = 0 /\ ug_start = 0
    /\ round_num = 0 /\ previous_hints = <<>> /\ ug_said = {}
    /\ ug_iters = 0 /\ ug_incorrect = 0

\* in-progress flags of one say_animated call: the speech call and the movement
NoSay == [speech |-> TRUE, gesture |-> TRUE]

NoObject == [name |-> <<>>, color |-> "", size |-> "", shape |-> ""]

COIdle ==
    /\ co_pc = "idle" /\ co_text = "" /\ co_object = NoObject
    /\ co_path = "" /\ co_ret = NoObject

ORIdle ==
    /\ or_pc = "idle" /\ or_op = "" /\ or_failed = FALSE /\ or_ret = ""
    /\ or_steps = 0

USIdle ==
    /\ us_pc = "s35" /\ us_cur = NoSay /\ us_bg = NoSay
    /\ us_neutral = FALSE /\ us_listens = 0

ARIdle ==
    /\ ar_pc = "idle" /\ ar_max = 0 /\ ar_ctx = FALSE /\ attempt = 0
    /\ ar_heard = None /\ ar_ret = None /\ ar_said = <<>> /\ ar_listens = 0

PGIdle ==
    /\ pg_pc = "greet" /\ scan_mode = "static" /\ user_name = <<>>
    /\ playing = TRUE /\ pg_answer = None
    /\ pg_said = <<>> /\ pg_sessions = <<>> /\ pg_matches = 0
    /\ pg_left = FALSE

STTInit == stt_words = <<>> /\ stt_ret = <<>> /\ stt_drains = 0 /\ stt_prev = <<>>

NoVerdict == [text |-> "<none>", correct |-> FALSE]

PJIdle ==
    /\ pj_pc = "idle" /\ pj_guess = <<>>
    /\ pj_object = [name |-> <<>>, dutch_name |-> <<>>]
    /\ pj_oracle = "up" /\ is_correct = FALSE /\ pj_asked = FALSE
    /\ pj_ret = NoVerdict

AllIdle ==
    /\ STTInit /\ ListenIdle /\ RGIdle /\ UGIdle
    /\ COIdle /\ ORIdle /\ USIdle /\ ARIdle /\ PGIdle /\ PJIdle

\* DummySTT.set_words
set_words(w) == stt_words' = w

\* the producer deposits a word list
STT_Deposit ==
    /\ \E w \in WordLists : set_words(w)
    /\ stt_drains' = 0
    /\ UNCHANGED <<stt_ret, stt_prev, listenVars, rgVars, ugVars, extVars>>

\* a client calls give_me_words()
STT_Drain ==
    /\ stt_words' = GiveMeWords(stt_words).buf
    /\ stt_ret' = GiveMeWords(stt_words).ret
    /\ stt_prev' = stt_ret
    /\ stt_drains' = IF stt_drains < 2 THEN stt_drains + 1 ELSE 2
    /\ UNCHANGED <<listenVars, rgVars, ugVars, extVars>>

InitSTT == AllIdle
NextSTT == STT_Deposit \/ STT_Drain
SpecSTT == InitSTT /\ [][NextSTT]_vars

MaxTimeout == 4
MaxSilence == 2
MaxPoll == 2

default_timeout == 15

\* timeout=None (written 0) or a number of seconds
TimeoutArgs == 0..MaxTimeout
SilenceArgs == 0..MaxSilence
PollArgs == 1..MaxPoll

CeilDiv(a, b) == (a + b - 1) \div b

\* "while waited <= timeout"
OuterContinuesIncl(w, t) == w <= t

\* "while waited < timeout"
OuterContinues(w, t) == w < t

\* "if waited >= timeout" in the confirmation phase
TimeoutReached(w, t) == w >= t

\* the joined response of a word list of either shape
Normalise(ws) == JoinTokens([i \in 1..Len(ws) |-> ws[i].tok])

\* listen beginning without clearing the buffer
L_StartKeep ==
    /\ l_pc \in {"idle", "returned"}
    /\ \E t \in TimeoutArgs, s \in SilenceArgs, p \in PollArgs :
        /\ l_timeout' = IF t = 0 THEN default_timeout ELSE t
        /\ l_silence' = s
        /\ l_poll' = p
    /\ UNCHANGED stt_words
    /\ waited' = 0 /\ response' = None /\ silence_waited' = 0
    /\ words' = <<>> /\ l_ret' = None
    /\ l_pc' = "outer"
    /\ l_polls' = 0 /\ l_deposited' = FALSE /\ l_everWords' = FALSE
    /\ l_first' = <<>> /\ l_firstAt' = 0 /\ l_laterEmpty' = TRUE
    /\ l_stale' = (stt_words # <<>>)
    /\ UNCHANGED <<stt_ret, stt_drains, stt_prev, rgVars, ugVars, extVars>>

\* timeout = timeout or self.default_timeout; self.stt.words = []; ...
L_Start ==
    /\ l_pc \in {"idle", "returned"}
    /\ \E t \in TimeoutArgs, s \in SilenceArgs, p \in PollArgs :
        /\ l_timeout' = IF t = 0 THEN default_timeout ELSE t
        /\ l_silence' = s
        /\ l_poll' = p
    /\ stt_words' = <<>>
    /\ waited' = 0 /\ response' = None /\ silence_waited' = 0
    /\ words' = <<>> /\ l_ret' = None
    /\ l_pc' = "outer"
    /\ l_polls' = 0 /\ l_deposited' = FALSE /\ l_everWords' = FALSE
    /\ l_first' = <<>> /\ l_firstAt' = 0 /\ l_laterEmpty' = TRUE
    /\ l_stale' = (stt_words # <<>>)
    /\ UNCHANGED <<stt_ret, stt_drains, stt_prev, rgVars, ugVars, extVars>>

\* the microphone stream handler deposits recognised words
L_Deposit ==
    /\ l_pc \in {"idle", "outer", "inner"}
    /\ \E w \in WordLists : set_words(w)
    /\ l_deposited' = (l_pc # "idle")
    /\ l_stale' = (l_stale /\ l_pc = "idle")
    /\ UNCHANGED <<stt_ret, stt_drains, stt_prev, l_pc, l_timeout, l_silence, l_poll, waited, silence_waited,
                   response, words, l_ret, l_polls, l_everWords, l_first,
                   l_firstAt, l_laterEmpty, rgVars, ugVars, extVars>>

\* one pass of the outer loop: sleep, drain, and what follows without a sleep
L_OuterPoll ==
    /\ l_pc = "outer"
    /\ OuterContinues(waited, l_timeout)
    /\ stt_words' = GiveMeWords(stt_words).buf
    /\ waited' = waited + l_poll
    /\ l_polls' = l_polls + 1
    /\ IF GiveMeWords(stt_words).ret # <<>>
       THEN /\ words' = GiveMeWords(stt_words).ret
            /\ response' = Normalise(GiveMeWords(stt_words).ret)
            /\ l_everWords' = TRUE
            /\ l_first' = GiveMeWords(stt_words).ret
            /\ l_firstAt' = waited'
            /\ IF silence_waited < l_silence
               THEN l_pc' = "inner" /\ UNCHANGED l_ret
               ELSE l_pc' = "returned" /\ l_ret' = response'
       ELSE /\ UNCHANGED <<words, response, l_everWords, l_first, l_firstAt>>
            /\ IF OuterContinues(waited', l_timeout)
               THEN l_pc' = "outer" /\ UNCHANGED l_ret
               ELSE l_pc' = "returned" /\ l_ret' = None
    /\ UNCHANGED <<stt_ret, stt_drains, stt_prev, l_timeout, l_silence, l_poll,
                   silence_waited, l_deposited,
                   l_laterEmpty, l_stale, rgVars, ugVars, extVars>>

\* one pass of the confirmation loop, a change not resetting the window
L_InnerPollNoReset ==
    /\ l_pc = "inner"
    /\ stt_words' = GiveMeWords(stt_words).buf
    /\ waited' = waited + l_poll
    /\ l_polls' = l_polls + 1
    /\ l_laterEmpty' = (l_laterEmpty /\ GiveMeWords(stt_words).ret = <<>>)
    /\ l_first' = IF l_laterEmpty' THEN l_first ELSE <<>>
    /\ IF GiveMeWords(stt_words).ret # words
       THEN /\ words' = GiveMeWords(stt_words).ret
            /\ silence_waited' = silence_waited + l_poll
            /\ IF GiveMeWords(stt_words).ret = <<>>
               THEN \* words[0] of an empty list: IndexError
                    /\ l_pc' = "raised"
                    /\ UNCHANGED <<response, l_ret>>
               ELSE /\ response' = Normalise(GiveMeWords(stt_words).ret)
                    /\ IF TimeoutReached(waited', l_timeout)
                       THEN l_pc' = "returned" /\ l_ret' = response'
                       ELSE IF silence_waited' < l_silence
                            THEN l_pc' = "inner" /\ UNCHANGED l_ret
                            ELSE l_pc' = "returned" /\ l_ret' = response'
       ELSE /\ silence_waited' = silence_waited + l_poll
            /\ UNCHANGED <<words, response>>
            /\ IF TimeoutReached(waited', l_timeout)
               THEN l_pc' = "returned" /\ l_ret' = response
               ELSE IF silence_waited' < l_silence
                    THEN l_pc' = "inner" /\ UNCHANGED l_ret
                    ELSE l_pc' = "returned" /\ l_ret' = response
    /\ UNCHANGED <<stt_ret, stt_drains, stt_prev, l_timeout, l_silence, l_poll,
                   l_deposited, l_everWords, l_firstAt, l_stale, rgVars, ugVars,
                   extVars>>

\* one pass of the confirmation loop
L_InnerPoll ==
    /\ l_pc = "inner"
    /\ stt_words' = GiveMeWords(stt_words).buf
    /\ waited' = waited + l_poll
    /\ l_polls' = l_polls + 1
    /\ l_laterEmpty' = (l_laterEmpty /\ GiveMeWords(stt_words).ret = <<>>)
    /\ l_first' = IF l_laterEmpty' THEN l_first ELSE <<>>
    /\ IF GiveMeWords(stt_words).ret # words
       THEN /\ words' = GiveMeWords(stt_words).ret
            /\ silence_waited' = 0
            /\ IF GiveMeWords(stt_words).ret = <<>>
               THEN \* words[0] of an empty list: IndexError
                    /\ l_pc' = "raised"
                    /\ UNCHANGED <<response, l_ret>>
               ELSE /\ response' = Normalise(GiveMeWords(stt_words).ret)
                    /\ IF TimeoutReached(waited', l_timeout)
                       THEN l_pc' = "returned" /\ l_ret' = response'
                       ELSE IF silence_waited' < l_silence
                            THEN l_pc' = "inner" /\ UNCHANGED l_ret
                            ELSE l_pc' = "returned" /\ l_ret' = response'
       ELSE /\ silence_waited' = silence_waited + l_poll
            /\ UNCHANGED <<words, response>>
            /\ IF TimeoutReached(waited', l_timeout)
               THEN l_pc' = "returned" /\ l_ret' = response
               ELSE IF silence_waited' < l_silence
                    THEN l_pc' = "inner" /\ UNCHANGED l_ret
                    ELSE l_pc' = "returned" /\ l_ret' = response
    /\ UNCHANGED <<stt_ret, stt_drains, stt_prev, l_timeout, l_silence, l_poll,
                   l_deposited, l_everWords, l_firstAt, l_stale, rgVars, ugVars,
                   extVars>>

InitListen == AllIdle
NextListen == L_Start \/ L_Deposit \/ L_OuterPoll \/ L_InnerPoll
SpecListen == InitListen /\ [][NextListen]_vars

\* C8: when no words arrive during a listen, it returns None at the poll at
\* which waited first reaches timeout, the ceil(timeout / poll_interval)-th,
\* and at no earlier poll.
C8_SilentTimeout ==
    (l_pc = "returned" /\ ~l_deposited) =>
        /\ l_ret = None
        /\ l_polls = CeilDiv(l_timeout, l_poll)
        /\ waited = l_polls * l_poll
        /\ waited >= l_timeout
        /\ waited - l_poll < l_timeout

\* Scenario A: timeout 15, poll 1, silence window 2, nothing said
C8_Witness ==
    /\ l_pc = "returned" /\ ~l_deposited /\ l_ret = None
    /\ l_timeout = 15 /\ l_poll = 1 /\ l_silence = 2 /\ l_polls = 15

\* C9: when the first non-empty drain is followed only by empty drains and
\* the silence window ends before the timeout, listen ends by returning the
\* words of that first drain, once the silence window has elapsed.
C9_ReturnsFirstDrain ==
    (/\ l_pc \in {"returned", "raised"}
     /\ l_everWords /\ l_laterEmpty
     /\ l_firstAt + l_silence < l_timeout) =>
        /\ l_pc = "returned"
        /\ l_ret = Normalise(l_first)
        /\ waited = l_firstAt + CeilDiv(l_silence, l_poll) * l_poll

\* C10: a listen in which some drain returned words ends by returning a
\* response, never None, also when the timeout is reached while confirming.
C10_ResponseWins ==
    (l_pc \in {"returned", "raised"} /\ l_everWords) =>
        (l_pc = "returned" /\ l_ret # None)

C24_ChangeResetsWindow ==
    /\ [][(/\ l_pc = "inner"
           /\ l_polls' = l_polls + 1
           /\ GiveMeWords(stt_words).ret # <<>>
           /\ Normalise(GiveMeWords(stt_words).ret) # response)
          => (/\ silence_waited' = 0
              /\ response' = Normalise(GiveMeWords(stt_words).ret))]_vars
    /\ []((l_pc = "returned" /\ l_everWords) =>
            (silence_waited >= l_silence \/ waited >= l_timeout))

\* returned by silence, before the timeout, later than a listen whose
\* window was never reset
C24_Witness ==
    /\ l_pc = "returned" /\ l_ret # None
    /\ l_silence > 0 /\ waited < l_timeout
    /\ waited > l_firstAt + CeilDiv(l_silence, l_poll) * l_poll

\* C25: a confirmation poll counts its drain as a change, setting the
\* silence window to zero, only if the drain's normalised joined text differs
\* from the recorded response, whichever shape the words arrive in.
C25_ChangeOnlyOnNewText ==
    [][(/\ l_pc = "inner"
        /\ l_polls' = l_polls + 1
        /\ GiveMeWords(stt_words).ret # <<>>
        /\ silence_waited' = 0)
       => Normalise(GiveMeWords(stt_words).ret) # response]_vars

\* C29: a listen performs at most ceil(timeout / poll_interval) + 1 drains,
\* waited passes timeout by at most one poll_interval, and the call ends by
\* returning.
C29_ListenReturnsBounded ==
    l_pc # "idle" =>
        /\ l_polls <= CeilDiv(l_timeout, l_poll) + 1
        /\ waited <= (CeilDiv(l_timeout, l_poll) + 1) * l_poll
        /\ l_pc # "raised"

(***************************************************************************)
(* Engine-guesses session: assignment_1 play_game_robot_guesses            *)
(***************************************************************************)
max_rounds == 15

T_NoResponse == <<"N","o"," ","r","e","s","p","o","n","s","e">>
T_Yes == <<"Y","e","s">>
T_Wait == <<"W","a","i","t">>
T_Repeat == <<"R","e","p","e","a","t">>
T_YesThatsIt == <<"Y","e","s",","," ","t","h","a","t","'","s"," ","i","t","!">>
T_Question == <<"<","B","i","g","?",">"," ">>

K_yes == <<"y","e","s">>
K_repeat == <<"r","e","p","e","a","t">>
K_correct == <<"c","o","r","r","e","c","t">>
K_yes_thats_it == <<"y","e","s"," ","t","h","a","t","s"," ","i","t">>
K_exactly == <<"e","x","a","c","t","l","y">>
K_yes_you_guessed_it ==
    <<"y","e","s"," ","y","o","u"," ","g","u","e","s","s","e","d"," ","i","t">>

\* what wait_for_response hands back to the session: a text or None
ReadyAnswers == {None, T_Yes, T_Wait}
Feedbacks == {None, T_Repeat, T_YesThatsIt}

\* the texts the Oracle returns for a question; the session only strips,
\* speaks and records the text and never branches on it
Questions == {T_Question}

win_keywords == {K_correct, K_yes_thats_it, K_exactly, K_yes_you_guessed_it}

\* feedback.lower(), punctuation kept
FeedbackLowered(feedback) == Lower(feedback)

\* feedback.lower().translate(str.maketrans("", "", string.punctuation))
FeedbackCleaned(feedback) == RemoveChars(Lower(feedback), Punctuation)

\* any(affirm in feedback_cleaned for affirm in win_keywords)
IsAffirmation(feedback) ==
    \E k \in win_keywords : Contains(FeedbackCleaned(feedback), k)

\* re.sub(r'[<>]', '', guess_question).strip()
CleanGuess(q) == Strip(RemoveChars(q, {"<", ">"}))

\* a round is recorded only when the player said something
RecordRoundHeard(hist, q, fb) ==
    IF fb = T_NoResponse THEN hist
    ELSE Append(hist, [guess |-> q, feedback |-> fb])

\* previous_guesses.append({'guess': clean_guess, 'feedback': feedback})
RecordRound(hist, q, fb) == Append(hist, [guess |-> q, feedback |-> fb])

T_AreYouReady == <<"A","r","e"," ","y","o","u"," ","r","e","a","d","y","?">>

\* wait_for_response: the speech calls it issues for a prompt, one call with
\* text=prompt_text whatever the prompt is
PromptCalls(prompt_text) == <<prompt_text>>

RGOthers == <<sttVars, listenVars, ugVars, extVars>>

\* "Great! Please think of a word ..."; sleep(5)
RG_Begin ==
    /\ rg_pc = "begin"
    /\ rg_said' = rg_said \cup {"think"}
    /\ rg_pc' = "ready"
    /\ UNCHANGED <<previous_guesses, last_feedback, round_counter, rg_question,
                   rg_iters, rg_lastFeedback, rg_lenBefore, rg_silent, rg_tick,
                   rg_spoken, RGOthers>>

\* one pass of the readiness loop
RG_Ready ==
    /\ rg_pc = "ready"
    /\ rg_spoken' = PromptCalls(T_AreYouReady)
    /\ \E ready \in ReadyAnswers :
        /\ rg_silent' = (rg_silent /\ Falsy(ready))
        /\ IF Falsy(ready) \/ ~Contains(Lower(ready), K_yes)
           THEN /\ rg_said' = rg_said \cup {"waiting"}
                /\ rg_pc' = "ready"
                /\ rg_tick' = 1 - rg_tick
           ELSE /\ rg_said' = rg_said \cup {"start"}
                /\ rg_pc' = "loop"
                /\ rg_tick' = 0
    /\ UNCHANGED <<previous_guesses, last_feedback, round_counter, rg_question,
                   rg_iters, rg_lastFeedback, rg_lenBefore, RGOthers>>

\* loop test, guess(last_feedback, previous_guesses), say, sleep(3)
RG_Ask ==
    /\ rg_pc = "loop"
    /\ round_counter < max_rounds
    /\ \E q \in Questions : rg_question' = CleanGuess(q)
    /\ rg_iters' = rg_iters + 1
    /\ rg_lenBefore' = Len(previous_guesses)
    /\ rg_pc' = "asked"
    /\ UNCHANGED <<previous_guesses, last_feedback, round_counter, rg_said,
                   rg_lastFeedback, rg_silent, rg_tick, rg_spoken,
                   RGOthers>>

\* the rest of the loop body, with a silent round skipped by "continue"
RG_FeedbackSkipSilent ==
    /\ rg_pc = "asked"
    /\ rg_spoken' = PromptCalls(None)
    /\ \E r \in Feedbacks :
        /\ rg_silent' = (rg_silent /\ Falsy(r))
        /\ rg_lastFeedback' = (IF Falsy(r) THEN T_NoResponse ELSE r)
        /\ IF Falsy(r)
           THEN /\ rg_pc' = "loop"
                /\ UNCHANGED <<previous_guesses, round_counter, last_feedback,
                               rg_said>>
           ELSE /\ previous_guesses' = RecordRound(previous_guesses, rg_question, r)
                /\ round_counter' = round_counter + 1
                /\ IF IsAffirmation(r)
                   THEN /\ rg_said' = rg_said \cup {"win"}
                        /\ rg_pc' = "after"
                        /\ UNCHANGED last_feedback
                   ELSE /\ last_feedback' = r
                        /\ rg_pc' = "loop"
                        /\ UNCHANGED rg_said
    /\ UNCHANGED <<rg_question, rg_iters, rg_lenBefore, rg_tick, RGOthers>>

\* the rest of the loop body: wait_for_response, record, count, win test
RG_Feedback ==
    /\ rg_pc = "asked"
    /\ rg_spoken' = PromptCalls(None)
    /\ \E r \in Feedbacks :
        LET feedback == IF Falsy(r) THEN T_NoResponse ELSE r IN
        /\ rg_silent' = (rg_silent /\ Falsy(r))
        /\ previous_guesses' = RecordRound(previous_guesses, rg_question, feedback)
        /\ round_counter' = round_counter + 1
        /\ rg_lastFeedback' = feedback
        /\ IF IsAffirmation(feedback)
           THEN /\ rg_said' = rg_said \cup {"win"}
                /\ rg_pc' = "after"
                /\ UNCHANGED last_feedback
           ELSE /\ last_feedback' = feedback
                /\ rg_pc' = "loop"
                /\ UNCHANGED rg_said
    /\ UNCHANGED <<rg_question, rg_iters, rg_lenBefore, rg_tick, RGOthers>>

\* after the loop: the give-up line when the cap is reached, then thanks
RG_Finish ==
    /\ \/ rg_pc = "after"
       \/ rg_pc = "loop" /\ ~(round_counter < max_rounds)
    /\ rg_said' = rg_said \cup {"thanks"}
                  \cup (IF round_counter >= max_rounds THEN {"give_up"} ELSE {})
    /\ rg_pc' = "done"
    /\ UNCHANGED <<previous_guesses, last_feedback, round_counter, rg_question,
                   rg_iters, rg_lastFeedback, rg_lenBefore, rg_silent, rg_tick,
                   rg_spoken, RGOthers>>

InitRG == AllIdle
NextRG == RG_Begin \/ RG_Ready \/ RG_Ask \/ RG_Feedback \/ RG_Finish
SpecRG == InitRG /\ [][NextRG]_vars

\* C28: wait_for_response issues a speech call only for a non-empty prompt;
\* a wait with an absent or empty prompt issues none.
C28_SayOnlyWithPrompt ==
    \A i \in DOMAIN rg_spoken : ~Falsy(rg_spoken[i])

\* the session function is resumed whenever the step it waits for is over
SpecRGFair == SpecRG /\ WF_vars(NextRG)

\* C1: the round loop of an engine-guesses session enters its body at most
\* max_rounds times, and every completed pass, silent ones included, has
\* advanced round_counter by exactly one.
C1_RoundsBounded ==
    /\ rg_iters <= max_rounds
    /\ rg_pc \in {"loop", "after", "done"} => round_counter = rg_iters
    /\ rg_pc = "asked" => round_counter = rg_iters - 1

\* the cap is reached by a session whose last round got no response
C1_Witness ==
    /\ rg_pc = "done" /\ rg_iters = max_rounds
    /\ rg_lastFeedback = T_NoResponse

\* C6: the round history is as long as the number of completed rounds.
C6_HistoryLength == Len(previous_guesses) = round_counter

\* a session with completed rounds, one of them silent
C6_Witness ==
    /\ round_counter >= 2
    /\ \E i \in 1..Len(previous_guesses) :
        previous_guesses[i].feedback = T_NoResponse

\* C7: a pass of the round loop whose response contains "repeat" leaves the
\* round history as long as it was.
C7_RepeatNotRecorded ==
    (/\ rg_pc \in {"loop", "after", "done"}
     /\ rg_iters > 0
     /\ Contains(Lower(rg_lastFeedback), K_repeat)) =>
        Len(previous_guesses) = rg_lenBefore

\* C11: a round whose feedback, lower-cased and stripped of punctuation,
\* contains one of "correct", "yes thats it", "exactly", "yes you guessed
\* it" leaves the loop with the win line spoken, and once the win line is
\* spoken no further question is asked.
C11_AffirmationWins ==
    /\ []((/\ rg_pc \in {"loop", "after", "done"}
           /\ rg_iters > 0
           /\ \E k \in {K_correct, K_yes_thats_it, K_exactly,
                         K_yes_you_guessed_it} :
                Contains(RemoveChars(Lower(rg_lastFeedback), Punctuation), k))
          => (rg_pc \in {"after", "done"} /\ "win" \in rg_said))
    /\ [][("win" \in rg_said) =>
            (rg_iters' = rg_iters /\ rg_question' = rg_question)]_vars

\* Scenario C: "Yes, that's it!" in the third round
C11_Witness ==
    /\ rg_pc = "done" /\ rg_lastFeedback = T_YesThatsIt
    /\ round_counter = 3 /\ "win" \in rg_said

\* C12: no engine-guesses session speaks both the win line and the give-up
\* line.
C12_WinExcludesGiveUp == ~("win" \in rg_said /\ "give_up" \in rg_said)

\* C22: an engine-guesses session whose player never says anything
\* eventually speaks its closing thank-you line.
C22_SilentPlayerFinishes == ([]rg_silent) => <>("thanks" \in rg_said)

(***************************************************************************)
(* Player-guesses session: assignment_3 play_game_user_guesses             *)
(***************************************************************************)
ug_max_rounds == 8

\* the loop bodies a session may enter (a silent pass does not count a round)
MaxIters == 11

\* difficulty levels a caller may ask for (1 = easy, 3 = hard)
Difficulties == 1..3

\* wait_for_response: a guess or None
Guesses == {None, T_red, T_car}

\* process_guess: (response_text, is_correct)
JudgeOutcomes(g) ==
    {<<"right", TRUE>>, <<"hint", FALSE>>, <<"unsure", FALSE>>}

UGOthers == <<sttVars, listenVars, rgVars, extVars>>

\* greeting, scan, choose_object(all_objects, difficulty), start_i_spy_game
UG_Start ==
    /\ ug_pc = "start"
    /\ \E d \in Difficulties : ug_requested' = d
    /\ difficulty' = 1
    /\ ug_start' = difficulty'
    /\ \E found \in BOOLEAN :
        IF ~found
        THEN /\ ug_said' = ug_said \cup {"greet", "nothing_found"}
             /\ ug_pc' = "done"
             /\ UNCHANGED previous_hints
        ELSE /\ ug_said' = ug_said \cup {"greet", "intro", "initial_hint"}
             /\ previous_hints' = <<"initial_hint">>
             /\ ug_pc' = "loop"
    /\ round_num' = 0
    /\ UNCHANGED <<ug_iters, ug_incorrect, UGOthers>>

\* one pass of the round loop, raising difficulty after a wrong guess
UG_RoundHarder ==
    /\ ug_pc = "loop"
    /\ round_num < ug_max_rounds
    /\ ug_iters < MaxIters
    /\ ug_iters' = ug_iters + 1
    /\ \E g \in Guesses :
        IF Falsy(g)
        THEN /\ ug_said' = ug_said \cup {"didnt_catch"}
             /\ UNCHANGED <<ug_pc, round_num, previous_hints, ug_incorrect,
                            difficulty>>
        ELSE \E o \in JudgeOutcomes(g) :
            IF o[2]
            THEN /\ ug_said' = ug_said \cup {o[1], "here_it_is", "point"}
                 /\ ug_pc' = "after"
                 /\ UNCHANGED <<round_num, previous_hints, ug_incorrect,
                                difficulty>>
            ELSE /\ ug_said' = ug_said \cup {o[1]}
                 /\ previous_hints' = Append(previous_hints, o[1])
                 /\ round_num' = round_num + 1
                 /\ ug_incorrect' = ug_incorrect + 1
                 /\ difficulty' = IF difficulty < 3 THEN difficulty + 1
                                  ELSE difficulty
                 /\ UNCHANGED ug_pc
    /\ UNCHANGED <<ug_requested, ug_start, UGOthers>>

\* one pass of the round loop: wait_for_response, process_guess, say
UG_Round ==
    /\ ug_pc = "loop"
    /\ round_num < ug_max_rounds
    /\ ug_iters < MaxIters
    /\ ug_iters' = ug_iters + 1
    /\ \E g \in Guesses :
        IF Falsy(g)
        THEN \* "I'm sorry, I didn't catch that"; continue
             /\ ug_said' = ug_said \cup {"didnt_catch"}
             /\ UNCHANGED <<ug_pc, round_num, previous_hints, ug_incorrect>>
        ELSE \E o \in JudgeOutcomes(g) :
            IF o[2]
            THEN /\ ug_said' = ug_said \cup {o[1], "here_it_is", "point"}
                 /\ ug_pc' = "after"
                 /\ UNCHANGED <<round_num, previous_hints, ug_incorrect>>
            ELSE /\ ug_said' = ug_said \cup {o[1]}
                 /\ previous_hints' = Append(previous_hints, o[1])
                 /\ round_num' = round_num + 1
                 /\ ug_incorrect' = ug_incorrect + 1
                 /\ UNCHANGED ug_pc
    /\ UNCHANGED <<ug_requested, difficulty, ug_start, UGOthers>>

\* after the loop, speaking the reveal line whatever ended the loop
UG_FinishReveal ==
    /\ \/ ug_pc = "after"
       \/ ug_pc = "loop" /\ ~(round_num < ug_max_rounds)
    /\ ug_said' = ug_said \cup {"thanks", "reveal"}
    /\ ug_pc' = "done"
    /\ UNCHANGED <<ug_requested, difficulty, ug_start, round_num,
                   previous_hints, ug_iters, ug_incorrect, UGOthers>>

\* after the loop: the reveal when the cap is reached, then thanks
UG_Finish ==
    /\ \/ ug_pc = "after"
       \/ ug_pc = "loop" /\ ~(round_num < ug_max_rounds)
    /\ ug_said' = ug_said \cup {"thanks"}
                  \cup (IF round_num >= ug_max_rounds THEN {"reveal"} ELSE {})
    /\ ug_pc' = "done"
    /\ UNCHANGED <<ug_requested, difficulty, ug_start, round_num,
                   previous_hints, ug_iters, ug_incorrect, UGOthers>>

InitUG == AllIdle
NextUG == UG_Start \/ UG_Round \/ UG_Finish
SpecUG == InitUG /\ [][NextUG]_vars

\* C2: the round loop of a player-guesses session enters its body at most
\* ug_max_rounds times, whatever the judge and the player do.
C2_RoundsBounded == ug_iters <= ug_max_rounds

\* C3: in every state of a running player-guesses session difficulty lies
\* between 1 and the value it started with, and no step of it raises
\* difficulty.
C3_DifficultyMonotone ==
    /\ [](ug_pc # "start" => (1 <= difficulty /\ difficulty <= ug_start))
    /\ [][ug_pc # "start" => difficulty' <= difficulty]_vars

\* a session in which several wrong guesses have been judged
C3_Witness == ug_pc = "loop" /\ ug_incorrect >= 3 /\ difficulty = ug_start

C21_RevealIffCap ==
    /\ []((ug_pc = "done" /\ "thanks" \in ug_said) =>
            ("reveal" \in ug_said <=>
                (round_num >= ug_max_rounds /\ "point" \notin ug_said)))
    /\ []("point" \in ug_said =>
            ("reveal" \notin ug_said /\ ug_pc \in {"after", "done"}))
    /\ [][("point" \in ug_said) => ug_iters' = ug_iters]_vars

\* a correct guess in the last allowed round, session finished
C21_Witness ==
    /\ ug_pc = "done" /\ "point" \in ug_said /\ "thanks" \in ug_said
    /\ round_num = ug_max_rounds - 1

(***************************************************************************)
(* Object selection: assignment_3 api_handler.choose_object                *)
(***************************************************************************)
N_Monitor == <<"M","o","n","i","t","o","r">>
N_sofa == <<"s","o","f","a">>
N_cup == <<"c","u","p">>
N_lamp == <<"l","a","m","p">>

\* the object names the Oracle's descriptor may carry
ObjectNames == {N_Monitor, N_sofa, N_cup, N_lamp}

\* the values of a feature field the Oracle may write
ColorValues == {"unknown", "red"}
SizeValues == {"unknown", "tiny"}
ShapeValues == {"unknown", "flat"}

\* the descriptors the Oracle's response text may hold
Descriptors ==
    [name : ObjectNames, color : ColorValues, size : SizeValues,
     shape : ShapeValues]

\* response_text: a JSON document, a JSON document inside other text, or
\* text holding no JSON document
ResponseTexts == {"json", "wrapped", "prose"}

\* the name -> colour table, in dictionary order
common_colors ==
    <<<<<<"m","o","n","i","t","o","r">>, "black">>,
      <<<<"c","o","m","p","u","t","e","r">>, "silver">>,
      <<<<"l","a","p","t","o","p">>, "silver">>,
      <<<<"c","h","a","i","r">>, "black">>,
      <<<<"s","o","f","a">>, "gray">>,
      <<<<"t","a","b","l","e">>, "brown">>,
      <<<<"b","o","o","k">>, "multicolored">>,
      <<<<"p","h","o","n","e">>, "black">>,
      <<<<"b","o","t","t","l","e">>, "clear">>,
      <<<<"m","o","u","s","e">>, "black">>,
      <<<<"k","e","y","b","o","a","r","d">>, "black">>,
      <<<<"c","u","p">>, "white">>,
      <<<<"d","e","s","k">>, "brown">>,
      <<<<"w","i","n","d","o","w">>, "transparent">>,
      <<<<"d","o","o","r">>, "brown">>,
      <<<<"w","a","l","l">>, "white">>,
      <<<<"f","l","o","o","r">>, "gray">>,
      <<<<"c","e","i","l","i","n","g">>, "white">>>>

\* names of large objects
large_objects ==
    {<<"t","a","b","l","e">>,
     <<"s","o","f","a">>,
     <<"d","e","s","k">>,
     <<"b","e","d">>,
     <<"b","o","o","k","s","h","e","l","f">>,
     <<"d","o","o","r">>,
     <<"w","i","n","d","o","w">>}

\* names of small objects
small_objects ==
    {<<"p","h","o","n","e">>,
     <<"m","o","u","s","e">>,
     <<"p","e","n">>,
     <<"r","e","m","o","t","e">>,
     <<"k","e","y">>,
     <<"c","u","p">>,
     <<"b","o","t","t","l","e">>}

\* the name -> shape table, in dictionary order
shapes ==
    <<<<<<"m","o","n","i","t","o","r">>, "rectangular">>,
      <<<<"c","o","m","p","u","t","e","r">>, "rectangular">>,
      <<<<"c","h","a","i","r">>, "chair-shaped">>,
      <<<<"t","a","b","l","e">>, "rectangular">>,
      <<<<"b","o","o","k">>, "rectangular">>,
      <<<<"p","h","o","n","e">>, "rectangular">>,
      <<<<"b","o","t","t","l","e">>, "cylindrical">>,
      <<<<"c","u","p">>, "cylindrical">>,
      <<<<"b","a","l","l">>, "spherical">>,
      <<<<"b","o","w","l">>, "round">>>>

\* the value of the first table entry whose key occurs in name
FirstMatch(tab, name, default) ==
    LET hits == {i \in 1..Len(tab) : Contains(name, tab[i][1])}
    IN IF hits = {} THEN default
       ELSE tab[CHOOSE i \in hits : \A j \in hits : i <= j][2]

GuessColor(d) ==
    IF d.color = "unknown"
    THEN FirstMatch(common_colors, Lower(d.name), "multicolored")
    ELSE d.color

GuessSize(d) ==
    IF d.size = "unknown"
    THEN IF \E o \in large_objects : Contains(Lower(d.name), o) THEN "large"
         ELSE IF \E o \in small_objects : Contains(Lower(d.name), o)
              THEN "small"
              ELSE "medium"
    ELSE d.size

GuessShape(d) ==
    IF d.shape = "unknown"
    THEN FirstMatch(shapes, Lower(d.name), "irregular")
    ELSE d.shape

\* "Verify that features are not 'unknown'"
VerifyFeatures(d) ==
    [name |-> d.name, color |-> GuessColor(d), size |-> GuessSize(d),
     shape |-> GuessShape(d)]

COOthers == <<pjVars, sttVars, listenVars, rgVars, ugVars, orVars, usVars, arVars,
              pgVars>>

\* up to response_text: no usable objects or a failing request end the call
\* with None, otherwise the Oracle's text is at hand
CO_Call ==
    /\ co_pc = "idle"
    /\ \E hasObjects \in BOOLEAN, raises \in BOOLEAN :
        IF ~hasObjects \/ raises
        THEN /\ co_pc' = "returned"
             /\ co_path' = "none"
             /\ UNCHANGED <<co_text, co_object>>
        ELSE /\ co_pc' = "responded"
             /\ \E t \in ResponseTexts : co_text' = t
             /\ \E d \in Descriptors : co_object' = d
             /\ UNCHANGED co_path
    /\ UNCHANGED <<co_ret, COOthers>>

\* json.loads(response_text) succeeds: features verified, object returned
CO_Parse ==
    /\ co_pc = "responded"
    /\ co_text = "json"
    /\ co_ret' = VerifyFeatures(co_object)
    /\ co_path' = "primary"
    /\ co_pc' = "returned"
    /\ UNCHANGED <<co_text, co_object, COOthers>>

\* json.JSONDecodeError: the text between the outermost braces is parsed
CO_Extract ==
    /\ co_pc = "responded"
    /\ co_text # "json"
    /\ \E parses \in BOOLEAN :
        IF co_text = "wrapped" /\ parses
        THEN co_ret' = co_object /\ co_path' = "secondary"
        ELSE co_path' = "none" /\ UNCHANGED co_ret
    /\ co_pc' = "returned"
    /\ UNCHANGED <<co_text, co_object, COOthers>>

InitCO == AllIdle
NextCO == CO_Call \/ CO_Parse \/ CO_Extract
SpecCO == InitCO /\ [][NextCO]_vars

\* C13: every object choose_object returns, on the primary parse and on the
\* secondary extraction, has no feature equal to "unknown", and a monitor
\* whose colour came back "unknown" is returned black.
C13_FeaturesConcrete ==
    (co_pc = "returned" /\ co_path \in {"primary", "secondary"}) =>
        /\ co_ret.color # "unknown"
        /\ co_ret.size # "unknown"
        /\ co_ret.shape # "unknown"
        /\ (co_object.name = N_Monitor /\ co_object.color = "unknown")
              => co_ret.color = "black"

(***************************************************************************)
(* Oracle calls: api_handler, give_hint and assignment_1 guess_call        *)
(***************************************************************************)
\* narrated steps a session is followed for
MaxSteps == 8

\* the Oracle functions the sessions call
OracleOps == {"guess", "answer_question_with_api", "generate_secret_word",
              "choose_object", "give_hint", "process_guess", "guess_call"}

\* the function body runs the request inside try / except Exception
Guarded(op) == op # "guess_call"

\* what the except branch returns
Fallback(op) ==
    CASE op = "guess" -> "I'm sorry, I couldn't generate a question."
      [] op = "answer_question_with_api" -> "I don't know"
      [] op = "generate_secret_word" -> "apple"
      [] op = "choose_object" -> "<None>"
      [] op = "give_hint" -> "<_fallback_hint>"
      [] op = "process_guess" ->
            "I'm not sure if that's correct. Let's continue the game."
      [] OTHER -> "<raised>"

OROthers == <<pjVars, sttVars, listenVars, rgVars, ugVars, coVars, usVars, arVars,
              pgVars>>

\* a session calls an Oracle function; the request succeeds or raises
OR_Call ==
    /\ or_pc = "idle"
    /\ or_steps < MaxSteps
    /\ \E op \in OracleOps, fails \in BOOLEAN :
        /\ or_op' = op
        /\ or_failed' = fails
        /\ IF ~fails
           THEN or_ret' = "<content>" /\ or_pc' = "called"
           ELSE IF Guarded(op)
                THEN or_ret' = Fallback(op) /\ or_pc' = "called"
                \* no handler in the function or at the call site: the
                \* exception leaves the session
                ELSE or_ret' = "<raised>" /\ or_pc' = "aborted"
    /\ UNCHANGED <<or_steps, OROthers>>

\* the session goes on to its next narrated step with the returned value
OR_Narrate ==
    /\ or_pc = "called"
    /\ or_steps' = or_steps + 1
    /\ or_pc' = "idle"
    /\ UNCHANGED <<or_op, or_failed, or_ret, OROthers>>

InitOR == AllIdle
NextOR == OR_Call \/ OR_Narrate
SpecOR == InitOR /\ [][NextOR]_vars

\* C15: a failing Oracle call is never propagated: the function returns its
\* fallback value and the session is not aborted.
C15_FailureContained ==
    /\ or_pc # "aborted"
    /\ (or_pc = "called" /\ or_failed) => or_ret = Fallback(or_op)

(***************************************************************************)
(* Speech against listening: say_animated and the opening of               *)
(* play_game_user_guesses                                                  *)
(***************************************************************************)
\* a say_animated call is in progress until its speech call and its movement
\* have both completed
InProgress(s) == ~(s.speech /\ s.gesture)

\* say_animated: the speech call is issued, and the movement when the gesture
\* is in the library (d_movement is None otherwise)
Issued(hasGesture) == [speech |-> FALSE, gesture |-> ~hasGesture]

\* program points at which say_animated is called and waited for, with the
\* point reached when it has completed
SayPoints == {"s35", "s47", "s54", "s59", "s60"}
WaitPoint(pc) ==
    CASE pc = "s35" -> "w35" [] pc = "s47" -> "w47" [] pc = "s54" -> "w54"
      [] pc = "s59" -> "w59" [] pc = "s60" -> "w60"
AfterWait(pc) ==
    CASE pc = "w35" -> "p36" [] pc = "w47" -> "scan" [] pc = "w54" -> "done"
      [] pc = "w59" -> "s60" [] pc = "w60" -> "p68"

USOthers == <<pjVars, sttVars, listenVars, rgVars, ugVars, coVars, orVars, arVars,
              pgVars>>

\* yield say_animated(...): issue the say and wait for it
US_SayYielded ==
    /\ us_pc \in SayPoints
    /\ \E g \in BOOLEAN : us_cur' = Issued(g)
    /\ us_pc' = WaitPoint(us_pc)
    /\ UNCHANGED <<us_bg, us_neutral, us_listens, USOthers>>

\* the awaited say has completed (DeferredList of speech and movement); it
\* fires the neutral-pose write and the session resumes
US_SayResumed ==
    /\ us_pc \in {"w35", "w47", "w54", "w59", "w60"}
    /\ ~InProgress(us_cur)
    /\ us_neutral' = TRUE
    /\ us_pc' = AfterWait(us_pc)
    /\ UNCHANGED <<us_cur, us_bg, us_listens, USOthers>>

\* say_animated(...) without yield ("Nice to meet you"): the session goes on
\* to the wave behaviour at once
US_SayUnyielded ==
    /\ us_pc = "s42"
    /\ \E g \in BOOLEAN : us_bg' = Issued(g)
    /\ us_pc' = "b43"
    /\ UNCHANGED <<us_cur, us_neutral, us_listens, USOthers>>

\* the robot finishes speaking a say that is in progress
US_SpeechDone ==
    /\ \/ /\ ~us_cur.speech
          /\ us_cur' = [us_cur EXCEPT !.speech = TRUE]
          /\ UNCHANGED <<us_bg, us_neutral>>
       \/ /\ ~us_bg.speech
          /\ us_bg' = [us_bg EXCEPT !.speech = TRUE]
          /\ us_neutral' = (us_neutral \/ us_bg.gesture)
          /\ UNCHANGED us_cur
    /\ UNCHANGED <<us_pc, us_listens, USOthers>>

\* the robot finishes the movement of a say that is in progress
US_GestureDone ==
    /\ \/ /\ ~us_cur.gesture
          /\ us_cur' = [us_cur EXCEPT !.gesture = TRUE]
          /\ UNCHANGED <<us_bg, us_neutral>>
       \/ /\ ~us_bg.gesture
          /\ us_bg' = [us_bg EXCEPT !.gesture = TRUE]
          /\ us_neutral' = (us_neutral \/ us_bg.speech)
          /\ UNCHANGED us_cur
    /\ UNCHANGED <<us_pc, us_listens, USOthers>>

\* the fire-and-forget neutral-pose write completes
US_NeutralDone ==
    /\ us_neutral
    /\ us_neutral' = FALSE
    /\ UNCHANGED <<us_pc, us_cur, us_bg, us_listens, USOthers>>

\* the wave behaviour, waited for, completes
US_Behavior ==
    /\ us_pc = "b43"
    /\ us_pc' = "s47"
    /\ UNCHANGED <<us_cur, us_bg, us_neutral, us_listens, USOthers>>

\* perform_scan and choose_object: an object is found or not
US_Scan ==
    /\ us_pc = "scan"
    /\ \E found \in BOOLEAN : us_pc' = IF found THEN "s59" ELSE "s54"
    /\ UNCHANGED <<us_cur, us_bg, us_neutral, us_listens, USOthers>>

\* wait_for_response: the prompt is spoken (speech call only) and waited for
US_Prompt ==
    /\ us_pc \in {"p36", "p68"}
    /\ us_cur' = Issued(FALSE)
    /\ us_pc' = IF us_pc = "p36" THEN "wp36" ELSE "wp68"
    /\ UNCHANGED <<us_bg, us_neutral, us_listens, USOthers>>

\* wait_for_response: the prompt has completed, the polling loop begins
US_Listen ==
    /\ us_pc \in {"wp36", "wp68"}
    /\ ~InProgress(us_cur)
    /\ us_pc' = IF us_pc = "wp36" THEN "l36" ELSE "l68"
    /\ us_listens' = us_listens + 1
    /\ UNCHANGED <<us_cur, us_bg, us_neutral, USOthers>>

\* wait_for_response returns (a response or None)
US_Heard ==
    /\ us_pc \in {"l36", "l68"}
    /\ us_pc' = IF us_pc = "l36" THEN "s42" ELSE "done"
    /\ UNCHANGED <<us_cur, us_bg, us_neutral, us_listens, USOthers>>

InitUS == AllIdle
NextUS ==
    \/ US_SayYielded \/ US_SayResumed \/ US_SayUnyielded
    \/ US_SpeechDone \/ US_GestureDone \/ US_NeutralDone
    \/ US_Behavior \/ US_Scan \/ US_Prompt \/ US_Listen \/ US_Heard
SpecUS == InitUS /\ [][NextUS]_vars

\* C14: while a listen phase is running, no say issued before it is still in
\* progress (neither its speech nor its movement).
C14_ListenAfterSpeech ==
    us_pc \in {"l36", "l68"} => (~InProgress(us_cur) /\ ~InProgress(us_bg))

(***************************************************************************)
(* Reprompting: DialogueManager.ask_with_reprompt                          *)
(***************************************************************************)
\* largest max_attempts a caller passes
MaxAttempts == 3

AttemptArgs == 1..MaxAttempts

T_Hint == <<"H","i","n","t">>
K_hint == <<"h","i","n","t">>

\* what a listen may return: None or the player's words
Responses == {None, T_Repeat, T_Hint, T_red}

reprompt_phrases == <<"reprompt_1", "reprompt_2", "reprompt_3">>

Min(a, b) == IF a <= b THEN a ELSE b

\* prompt if attempt == 0 else reprompt_phrases[min(attempt - 1, len - 1)]
CurrentPrompt(a) ==
    IF a = 0 THEN "prompt"
    ELSE reprompt_phrases[Min(a - 1, Len(reprompt_phrases) - 1) + 1]

\* a loop that starts the same attempt again
NextAttemptSame ==
    ar_pc' = "top" /\ UNCHANGED <<attempt, ar_ret>>

\* the for statement takes the next value of range(max_attempts); when the
\* range is exhausted the function ends without a return statement
NextAttempt ==
    IF attempt + 1 < ar_max
    THEN attempt' = attempt + 1 /\ ar_pc' = "top" /\ UNCHANGED ar_ret
    ELSE ar_pc' = "returned" /\ ar_ret' = None /\ UNCHANGED attempt

AROthers == <<pjVars, sttVars, listenVars, rgVars, ugVars, coVars, orVars, usVars,
              pgVars>>

\* a caller invokes ask_with_reprompt
AR_Start ==
    /\ ar_pc = "idle"
    /\ \E m \in AttemptArgs : ar_max' = m
    /\ \E c \in BOOLEAN : ar_ctx' = c
    /\ attempt' = 0
    /\ ar_pc' = "top"
    /\ UNCHANGED <<ar_heard, ar_ret, ar_said, ar_listens, AROthers>>

\* the prompt of this attempt is spoken
AR_Prompt ==
    /\ ar_pc = "top"
    /\ ar_said' = Append(ar_said, CurrentPrompt(attempt))
    /\ ar_pc' = "listen"
    /\ UNCHANGED <<ar_max, ar_ctx, attempt, ar_heard, ar_ret, ar_listens,
                   AROthers>>

\* the listen of this attempt returns and the response is dispatched
AR_Listen ==
    /\ ar_pc = "listen"
    /\ ar_listens' = ar_listens + 1
    /\ \E r \in Responses :
        /\ ar_heard' = r
        /\ IF ~Falsy(r)
           THEN IF Contains(Lower(r), K_repeat)
                THEN \* continue
                     NextAttempt /\ UNCHANGED ar_said
                ELSE IF Contains(Lower(r), K_hint) /\ ar_ctx
                     THEN /\ ar_said' = Append(ar_said, "hint")
                          /\ ar_pc' = "hint_listen"
                          /\ UNCHANGED <<attempt, ar_ret>>
                     ELSE /\ ar_pc' = "returned"
                          /\ ar_ret' = r
                          /\ UNCHANGED <<attempt, ar_said>>
           ELSE IF attempt = 1 /\ ar_ctx
                THEN /\ ar_said' = ar_said \o <<"tricky", "hint">>
                     /\ NextAttempt
                ELSE IF attempt = ar_max - 1
                     THEN /\ ar_said' = Append(ar_said, "moving_on")
                          /\ ar_pc' = "returned"
                          /\ ar_ret' = None
                          /\ UNCHANGED attempt
                     ELSE NextAttempt /\ UNCHANGED ar_said
    /\ UNCHANGED <<ar_max, ar_ctx, AROthers>>

\* the listen after a spoken hint returns
AR_HintListen ==
    /\ ar_pc = "hint_listen"
    /\ ar_listens' = ar_listens + 1
    /\ \E r \in Responses :
        /\ ar_heard' = r
        /\ IF ~Falsy(r)
           THEN ar_pc' = "returned" /\ ar_ret' = r /\ UNCHANGED attempt
           ELSE NextAttempt
    /\ UNCHANGED <<ar_max, ar_ctx, ar_said, AROthers>>

InitAR == AllIdle
NextAR == AR_Start \/ AR_Prompt \/ AR_Listen \/ AR_HintListen
SpecAR == InitAR /\ [][NextAR]_vars

\* C16: a response containing "repeat" leaves the attempt count as it is and
\* the policy prompts again.
C16_RepeatKeepsAttempt ==
    [][(ar_pc = "listen" /\ Contains(Lower(ar_heard'), K_repeat))
         => (attempt' = attempt /\ ar_pc' = "top")]_vars

\* C17: whenever ask_with_reprompt returns None, the latest listen got no
\* response and the line spoken last is the "moving on" line.
C17_AbsentOnlyAnnounced ==
    (ar_pc = "returned" /\ ar_ret = None) =>
        /\ Falsy(ar_heard)
        /\ ar_said # <<>>
        /\ ar_said[Len(ar_said)] = "moving_on"

\* C18: a "hint" response with a game context makes the policy speak the
\* hint and listen once more, and the step that ends this listen returns what
\* it yielded, speaks nothing and counts no attempt.
C18_HintThenReturn ==
    /\ [][(ar_pc = "listen" /\ ar_ctx /\ Contains(Lower(ar_heard'), K_hint))
            => (ar_pc' = "hint_listen" /\ ar_said' = Append(ar_said, "hint")
                /\ attempt' = attempt)]_vars
    /\ [][ar_pc = "hint_listen"
            => (ar_pc' = "returned" /\ ar_ret' = ar_heard'
                /\ ar_said' = ar_said /\ attempt' = attempt)]_vars

\* every say and listen the function yields on completes and resumes it
SpecARFair == SpecAR /\ WF_vars(NextAR)

\* the lines of ar_said that are prompts of an attempt
PromptsSpoken ==
    Cardinality({i \in DOMAIN ar_said :
                    ar_said[i] = "prompt" \/ (\E k \in DOMAIN reprompt_phrases :
                                                ar_said[i] = reprompt_phrases[k])})

C27_HintOnPenultimate ==
    [][(ar_pc = "listen" /\ ar_ctx /\ ar_max >= 2)
         => /\ (ar_said' = ar_said \o <<"tricky", "hint">>)
                 <=> (Falsy(ar_heard') /\ attempt = ar_max - 2)
            /\ (ar_said' = ar_said \o <<"tricky", "hint">>)
                 => (attempt' = ar_max - 1 /\ ar_pc' = "top")]_vars

(***************************************************************************)
(* Game controller: assignment_3 play_game                                 *)
(***************************************************************************)
\* matches a controller run is followed for
MaxMatches == 3

T_No == <<"N","o">>
T_Ok == <<"O","k">>
T_IGuess == <<"I"," ","g","u","e","s","s">>
T_YouGuess == <<"Y","o","u"," ","g","u","e","s","s">>
K_no == <<"n","o">>
K_i_guess == <<"i"," ","g","u","e","s","s">>
K_you_guess == <<"y","o","u"," ","g","u","e","s","s">>

T_Ann == <<"A","n","n">>
T_ImBo == <<"I","'","m"," ","B","o">>
T_friend == <<"f","r","i","e","n","d">>

\* what listen may return to the name question
NameAnswers == {None, T_Ann, T_ImBo}

\* the scan modes play_game accepts
ScanModes == {"static", "360"}

RECURSIVE LastWord(_)
\* s.strip().split()[-1], for s holding a word
LastWord(s) ==
    LET t == Strip(s)
    IN IF \E i \in 1..Len(t) : t[i] = " "
       THEN LastWord(Tail(t))
       ELSE t

\* what listen may return to the yes / no questions and to the mode question
PlayAnswers == {None, T_Yes, T_No, T_Ok}
ModeAnswers == {None, T_IGuess, T_YouGuess, T_Ok}

\* parameters of the two session functions
UserGuessesParams == <<"session", "stt">>
RobotGuessesParams ==
    <<"session", "stt", "dialogue_manager", "difficulty", "scan_mode">>

\* the call play_game makes: f(session, stt, dialogue_manager,
\* difficulty=difficulty, scan_mode=scan_mode)
CallPositional == 3
CallKeywords == {"difficulty", "scan_mode"}

\* Python binds the call's arguments to the parameters, or raises TypeError
Binds(params) ==
    /\ CallPositional <= Len(params)
    /\ \A k \in CallKeywords :
          \E i \in (CallPositional + 1)..Len(params) : params[i] = k

PGOthers == <<sttVars, listenVars, rgVars, ugVars, coVars, orVars, usVars,
              arVars, pjVars>>

\* the session function is called and, when the call binds, runs to its end
RunSession(kind, params) ==
    IF Binds(params)
    THEN pg_sessions' = Append(pg_sessions, kind) /\ pg_pc' = "ask_again"
    ELSE pg_pc' = "raised" /\ UNCHANGED pg_sessions

\* play_game(session, stt, scan_mode): greeting and name
PG_Greet ==
    /\ pg_pc = "greet"
    /\ \E m \in ScanModes : scan_mode' = m
    /\ \E r \in NameAnswers :
        /\ pg_answer' = r
        /\ user_name' = IF Falsy(r) THEN T_friend ELSE LastWord(r)
    /\ pg_said' = pg_said \o <<"hello", "nice_to_meet_you">>
    /\ pg_pc' = "ask_play"
    /\ UNCHANGED <<playing, pg_sessions, pg_matches, pg_left, PGOthers>>

\* "Do you want to play a game?"
PG_AskPlay ==
    /\ pg_pc = "ask_play"
    /\ playing
    /\ pg_matches < MaxMatches
    /\ \E r \in PlayAnswers :
        /\ pg_answer' = r
        /\ IF Falsy(r) \/ Contains(Lower(r), K_no)
           THEN /\ pg_said' = pg_said \o <<"play?", "maybe_next_time">>
                /\ playing' = FALSE
                /\ pg_pc' = "ended"
           ELSE /\ pg_said' = Append(pg_said, "play?")
                /\ pg_pc' = "ask_mode"
                /\ UNCHANGED playing
    /\ UNCHANGED <<scan_mode, user_name, pg_sessions, pg_matches, pg_left,
                   PGOthers>>

\* the mode question and the session it selects
PG_AskMode ==
    /\ pg_pc = "ask_mode"
    /\ pg_matches' = pg_matches + 1
    /\ \E choice \in ModeAnswers :
        /\ pg_answer' = choice
        /\ IF ~Falsy(choice) /\ Contains(Lower(choice), K_i_guess)
           THEN /\ pg_said' = Append(pg_said, "mode?")
                /\ RunSession("player_guesses", UserGuessesParams)
           ELSE IF ~Falsy(choice) /\ Contains(Lower(choice), K_you_guess)
                THEN /\ pg_said' = Append(pg_said, "mode?")
                     /\ RunSession("engine_guesses", RobotGuessesParams)
                ELSE /\ pg_said' = pg_said \o <<"mode?", "didnt_understand">>
                     /\ RunSession("player_guesses", UserGuessesParams)
    /\ UNCHANGED <<scan_mode, user_name, playing, pg_left, PGOthers>>

\* "Do you want to play again?"
PG_AskAgain ==
    /\ pg_pc = "ask_again"
    /\ \E again \in PlayAnswers :
        /\ pg_answer' = again
        /\ IF ~Falsy(again) /\ Contains(Lower(again), K_yes)
           THEN /\ playing' = TRUE
                /\ pg_said' = Append(pg_said, "again?")
                /\ pg_pc' = "ask_play"
                /\ UNCHANGED pg_left
           ELSE /\ playing' = FALSE
                /\ pg_said' = pg_said \o <<"again?", "thanks_for_playing">>
                /\ pg_left' = TRUE
                /\ pg_pc' = "ended"
    /\ UNCHANGED <<scan_mode, user_name, pg_sessions, pg_matches, PGOthers>>

InitPG == AllIdle
NextPG == PG_Greet \/ PG_AskPlay \/ PG_AskMode \/ PG_AskAgain
SpecPG == InitPG /\ [][NextPG]_vars

\* C19: a controller that has ended spoke a farewell last and performed the
\* session leave, and the mode question of a match is reached only with an
\* affirmative answer to the play question.
C19_DeclineLeaves ==
    /\ pg_pc = "ended" =>
          /\ pg_left
          /\ pg_said[Len(pg_said)] \in {"maybe_next_time", "thanks_for_playing"}
    /\ pg_pc = "ask_mode" => Contains(Lower(pg_answer), K_yes)

\* C20: once the mode answer of a match is handled, one session has run for
\* each match begun, and the latest is the one the answer selects.
C20_OneSessionPerMatch ==
    pg_pc \in {"ask_again", "raised"} =>
        /\ Len(pg_sessions) = pg_matches
        /\ pg_sessions[pg_matches] =
              (IF ~Falsy(pg_answer) /\ Contains(Lower(pg_answer), K_you_guess)
               THEN "engine_guesses" ELSE "player_guesses")
        /\ (Falsy(pg_answer) \/ (~Contains(Lower(pg_answer), K_i_guess)
                                 /\ ~Contains(Lower(pg_answer), K_you_guess)))
              => pg_said[Len(pg_said)] = "didnt_understand"

(***************************************************************************)
(* Judging a guess: api_handler.process_guess                              *)
(***************************************************************************)
T_Cup == <<"C","u","p">>
T_a_cup == <<"a"," ","c","u","p">>
T_kop == <<"k","o","p">>
T_mug == <<"m","u","g">>
T_beker == <<"b","e","k","e","r">>
T_bank == <<"b","a","n","k">>

\* what the player may say as a guess
GuessTexts == {T_Cup, T_a_cup, T_kop, T_mug, T_beker, T_bank}

\* the objects a game is played about
GameObjects == {[name |-> N_cup, dutch_name |-> T_kop],
                [name |-> N_sofa, dutch_name |-> T_bank],
                [name |-> N_lamp, dutch_name |-> N_lamp]}

\* the service during one call: reachable; no usable key, so that obtaining
\* the connection raises; reachable for the connection but failing requests
OracleStates == {"up", "no_key", "no_service"}

\* chat_gtp_connection() and OpenAI(api_key=api_key): TRUE when a client is
\* obtained, FALSE when one of the two raises
chat_gtp_connection(oracle) == oracle # "no_key"

\* client.chat.completions.create: the answers it may give, none when it raises
Answers(oracle) == IF oracle = "up" THEN {"yes", "no"} ELSE {}

\* the direct match, on the lower-cased guess and names
DirectMatch(guess, object_name, dutch_name) ==
    \/ guess = object_name
    \/ guess = dutch_name
    \/ Contains(guess, object_name)
    \/ Contains(guess, dutch_name)

\* the direct match of the call in progress
Matches ==
    DirectMatch(Lower(pj_guess), Lower(pj_object.name),
                Lower(pj_object.dutch_name))

\* "len(guess) > 3": only substantial guesses go to the Oracle
Substantial(guess) == Len(guess) > 3

\* what the except branch returns
Unsure ==
    [text |-> "I'm not sure if that's correct. Let's continue the game.",
     correct |-> FALSE]

PJOthers == <<sttVars, listenVars, rgVars, ugVars, coVars, orVars, usVars,
              arVars, pgVars>>

\* the round loop calls process_guess(user_guess, chosen_object, ...)
PJ_Call ==
    /\ pj_pc \in {"idle", "returned"}
    /\ \E g \in GuessTexts, o \in GameObjects, a \in OracleStates :
        /\ pj_guess' = g
        /\ pj_object' = o
        /\ pj_oracle' = a
    /\ is_correct' = FALSE
    /\ pj_asked' = FALSE
    /\ pj_ret' = NoVerdict
    /\ pj_pc' = "setup"
    /\ UNCHANGED PJOthers

\* the first statements of the try block obtain the Oracle client
PJ_Setup ==
    /\ pj_pc = "setup"
    /\ IF chat_gtp_connection(pj_oracle)
       THEN pj_pc' = "match" /\ UNCHANGED pj_ret
       ELSE pj_pc' = "returned" /\ pj_ret' = Unsure
    /\ UNCHANGED <<pj_guess, pj_object, pj_oracle, is_correct, pj_asked,
                   PJOthers>>

\* lower-casing and the direct match
PJ_Match ==
    /\ pj_pc = "match"
    /\ is_correct' = Matches
    /\ pj_pc' = IF ~is_correct' /\ Substantial(Lower(pj_guess))
                THEN "semantic" ELSE "respond"
    /\ UNCHANGED <<pj_guess, pj_object, pj_oracle, pj_asked, pj_ret, PJOthers>>

\* the semantic request: 'yes' in the answer makes the guess correct
PJ_Semantic ==
    /\ pj_pc = "semantic"
    /\ pj_asked' = TRUE
    /\ IF Answers(pj_oracle) = {}
       THEN /\ pj_pc' = "returned"
            /\ pj_ret' = Unsure
            /\ UNCHANGED is_correct
       ELSE /\ \E answer \in Answers(pj_oracle) :
                is_correct' = (is_correct \/ answer = "yes")
            /\ pj_pc' = "respond"
            /\ UNCHANGED pj_ret
    /\ UNCHANGED <<pj_guess, pj_object, pj_oracle, PJOthers>>

\* the response: a confirmation, or a refusal with the next hint (give_hint
\* returns its fallback hint when its own request raises)
PJ_Respond ==
    /\ pj_pc = "respond"
    /\ pj_ret' = [text |-> IF is_correct THEN "right" ELSE "hint",
                  correct |-> is_correct]
    /\ pj_pc' = "returned"
    /\ UNCHANGED <<pj_guess, pj_object, pj_oracle, is_correct, pj_asked,
                   PJOthers>>

InitPJ == AllIdle
NextPJ == PJ_Call \/ PJ_Setup \/ PJ_Match \/ PJ_Semantic \/ PJ_Respond
SpecPJ == InitPJ /\ [][NextPJ]_vars

\* C30: a guess that equals or contains the object's name or its Dutch name
\* is returned as correct whatever the state of the Oracle service, and the
\* semantic request is issued only for a non-matching guess longer than 3
\* characters.
C30_DirectMatchNeedsNoOracle ==
    /\ (pj_pc = "returned" /\ Matches) => pj_ret.correct
    /\ pj_asked => (~Matches /\ Substantial(Lower(pj_guess)))

====
